---- MODULE Spec2Model ----
(***************************************************************************)
(* The MNIST training page: the train button's handler (load, createModel, *)
(* train, model.save), the model built by createConvModel(), train() with  *)
(* its model.fit callbacks, the prediction preview showPredictions() and   *)
(* the final test evaluation.                                              *)
(*                                                                         *)
(* Numbers.  The source computes in IEEE doubles; the model computes in    *)
(* integers.  validationSplit = 0.15 is kept as the percentage 15, so that *)
(* n * (1 - validationSplit) is the rational n * 85 / 100.  For the        *)
(* constants of the source the double results agree with the rational      *)
(* ones: 1 - 0.15 rounds to the double nearest 0.85, whose relative error  *)
(* (2.6e-17) is below a quarter ulp, so n * 0.85 rounds to the exact       *)
(* integer whenever n * 85 / 100 is one, and is otherwise at least 1/20    *)
(* away from every integer (1/6400 away from every multiple of 320).       *)
(*                                                                         *)
(* model.fit, model.evaluate, model.predict, tf.tidy and tf.nextFrame are  *)
(* calls the source makes into TensorFlow.js; what they do to the state    *)
(* the callbacks see (split, batches, epochs, order of the callbacks) is   *)
(* modelled at the call site.                                              *)
(*                                                                         *)
(* Three specifications.  Spec follows one activation of the train button  *)
(* from the click to the saved model.  BuildSpec applies createModel() to  *)
(* every image size the layers accept and every class count of a dataset.  *)
(* ClickSpec adds a second activation of the button, whose handler runs    *)
(* while the first is parked on an await.                                  *)
(***************************************************************************)
EXTENDS Integers, Sequences, FiniteSets

\* ------------------------------------------------------------- bounds

\* The datasets: the small ones, with every train split size up to MaxSmallN
\* over a test split of one example and the train split of MaxSmallN examples
\* over every test split size up to MaxSmallTest, and a large one, which
\* gives more than twenty batches per epoch and a test split larger than the
\* preview's testExamples.
MaxSmallN == 400
MaxSmallTest == 3
LargeN == 7600
LargeTest == 101
\* ui.getTrainEpochs() returns 1..MaxEpochs.
MaxEpochs == 2
\* The abstract parameter states of the model are 0..MaxWeights.
MaxWeights == 1
\* IMAGE_H and IMAGE_W of a dataset are at most MaxImage.
MaxImage == 28
\* The class count of a dataset is 2..MaxClasses.
MaxClasses == 10

\* ---------------------------------------------------- program constants

batchSize == 320
\* validationSplit = 0.15, as a percentage.
validationSplitPct == 15
testExamples == 100
\* units of the last dense layer.
NumClasses == 10
\* onBatchEnd calls onIteration when batch % 10 === 0.
IterationStride == 10

\* A JavaScript value that may be undefined: <<>> or <<v>>.
undefined == <<>>
Some(v) == <<v>>

VARIABLES
    numExamples,      \* trainData.xs.shape[0]
    testSize,         \* testData.xs.shape[0]
    trainEpochs,      \* ui.getTrainEpochs()
    imageH,           \* IMAGE_H of ./data
    imageW,           \* IMAGE_W of ./data
    labelWidth,       \* the class count: the width of a label row of ./data
    \* The variables from pc on are the first activation's unless said
    \* otherwise; the page (status, progress, valAccPlot, shown, finalStatus),
    \* data, loaded, dataReads, saves and liveTensors are shared.
    pc,               \* where the handler of the first activation stands
    pc2,              \* where the handler of a second activation stands
    run2,             \* the second activation's model and its train's state
    status,           \* the text of the last ui.logStatus, of either activation
    data,             \* the module-level data: undefined, or <<object>>
    loaded,           \* the MnistData objects whose load() has resolved
    dataReads,        \* the reads of data: <<run, reader, object, loaded>>
    model,            \* undefined, or <<the layers of the first handler's model>>
    stages,           \* the steps the first handler has begun, in order
    saves,            \* number of model.save calls, of either activation
    error,            \* undefined, or <<what made the first handler reject>>
    suspended,        \* train() is parked on tf.nextFrame()
    totalNumBatches,
    trainBatchCount,
    trainSlice,       \* fit: <<begin, end>> of the training slice, or <<>>
    valSlice,         \* fit: <<begin, end>> of the validation slice, or <<>>
    epoch,            \* fit: epoch loop variable
    batch,            \* fit: batch loop variable
    batchRange,       \* fit: <<begin, end>> of the running batch in the
                      \* epoch's shuffled index array, or <<>>
    used,             \* fit: entries of the epoch's index array trained on
    weights,          \* the model's parameters
    updates,          \* number of batch updates applied to the parameters
    epochLogs,        \* fit: val_acc of the running epoch, or undefined
    valAcc,
    progress,         \* <<trainBatchCount, totalNumBatches>> of the last status
    batchEnds,        \* number of onBatchEnd callbacks entered
    epochEnds,        \* number of onEpochEnd callbacks entered
    yields,           \* number of tf.nextFrame() awaits
    onIterationCalls, \* the onIteration(eventType, n) calls, in order
    previews,         \* the showPredictions calls that ran to their end
    valAccPlot,       \* ui.plotAccuracy(.., 'validation') points, in order
    shown,            \* <<>>, or the last ui.showTestResults call
    testResult,       \* undefined, or model.evaluate's accuracy <<correct, total>>
    finalStatus,      \* <<>>, or the final status line <<valAcc, test accuracy>>
    trainReturn,      \* <<>> while train() runs, then <<its value>>
    liveTensors       \* tensors allocated by an evaluation and not disposed

vars == <<numExamples, testSize, trainEpochs, imageH, imageW, labelWidth, pc,
          pc2, run2, status, data, loaded, dataReads, model, stages, saves, error,
          suspended, totalNumBatches, trainBatchCount, trainSlice, valSlice,
          epoch, batch, batchRange, used, weights, updates, epochLogs, valAcc,
          progress, batchEnds, epochEnds, yields, onIterationCalls, previews,
          valAccPlot, shown, testResult, finalStatus, trainReturn,
          liveTensors>>

\* ------------------------------------------------------------ arithmetic

\* Math.ceil(a / b) for integers a >= 0, b > 0.
CeilDiv(a, b) == (a + b - 1) \div b

\* trainData.xs.shape[0] * (1 - validationSplit), times 100.
TrainShare100(n) == n * (100 - validationSplitPct)

\* totalNumBatches = Math.ceil(n * (1 - validationSplit) / batchSize) * trainEpochs
TotalNumBatchesFloor(n, epochs) == (TrainShare100(n) \div (100 * batchSize)) * epochs
TotalNumBatches(n, epochs) == CeilDiv(TrainShare100(n), 100 * batchSize) * epochs

\* model.fit with validationSplit: splitAt = Math.floor(n * (1 - validationSplit));
\* the training slice is [0, splitAt), the validation slice [splitAt, n).
SplitAtRound(n) == n - ((2 * n * validationSplitPct + 100) \div 200)
SplitAt(n) == TrainShare100(n) \div 100

\* model.fit: the batches of one epoch over a training slice of size m.
NumBatches(m) == CeilDiv(m, batchSize)

\* model.fit: batch b of an epoch over a training slice of size m trains on
\* the entries [b * batchSize, min(m, (b + 1) * batchSize)) of the epoch's
\* index array, a shuffle of the indices of the training slice.
BatchRangeUnclipped(b, m) == <<b * batchSize, (b + 1) * batchSize>>
BatchRange(b, m) ==
    <<b * batchSize, IF (b + 1) * batchSize < m THEN (b + 1) * batchSize ELSE m>>

\* ------------------------------------------------------ createConvModel

\* The layers createConvModel adds, for IMAGE_H = h and IMAGE_W = w; the
\* dropout rate 0.1 is kept as a percentage.
createConvModelNoHead(h, w) ==
    << [layer |-> "conv2d", inputShape |-> <<h, w, 1>>, kernelSize |-> 5,
        filters |-> 32, activation |-> "relu"],
       [layer |-> "maxPooling2d", poolSize |-> 2, strides |-> 2],
       [layer |-> "conv2d", inputShape |-> <<h, w, 1>>, kernelSize |-> 5,
        filters |-> 64, activation |-> "relu"],
       [layer |-> "maxPooling2d", poolSize |-> 2, strides |-> 2],
       [layer |-> "flatten"],
       [layer |-> "dense", units |-> 128, activation |-> "relu"],
       [layer |-> "dropout", ratePct |-> 10] >>
createConvModel(h, w) ==
    << [layer |-> "conv2d", inputShape |-> <<h, w, 1>>, kernelSize |-> 5,
        filters |-> 32, activation |-> "relu"],
       [layer |-> "maxPooling2d", poolSize |-> 2, strides |-> 2],
       [layer |-> "conv2d", inputShape |-> <<h, w, 1>>, kernelSize |-> 5,
        filters |-> 64, activation |-> "relu"],
       [layer |-> "maxPooling2d", poolSize |-> 2, strides |-> 2],
       [layer |-> "flatten"],
       [layer |-> "dense", units |-> 128, activation |-> "relu"],
       [layer |-> "dropout", ratePct |-> 10],
       [layer |-> "dense", units |-> NumClasses, activation |-> "softmax"] >>

\* The shape a layer makes of the shape s of one example: a convolution
\* without padding and with stride 1, a pooling without padding, flatten,
\* dense; dropout keeps the shape.
LayerOutputShape(l, s) ==
    CASE l.layer = "conv2d" ->
            <<s[1] - l.kernelSize + 1, s[2] - l.kernelSize + 1, l.filters>>
      [] l.layer = "maxPooling2d" ->
            <<(s[1] - l.poolSize) \div l.strides + 1,
              (s[2] - l.poolSize) \div l.strides + 1, s[3]>>
      [] l.layer = "flatten" -> <<s[1] * s[2] * s[3]>>
      [] l.layer = "dense" -> <<l.units>>
      [] l.layer = "dropout" -> s

\* The shape of one example after the first k layers; only the first layer's
\* inputShape counts.
RECURSIVE OutputShape(_, _)
OutputShape(layers, k) ==
    IF k = 0 THEN layers[1].inputShape
    ELSE LayerOutputShape(layers[k], OutputShape(layers, k - 1))

\* The width of the model's output: the last dimension after the last layer.
OutputWidth(layers) ==
    LET s == OutputShape(layers, Len(layers)) IN s[Len(s)]

\* The layers can be stacked over h x w images: no layer is left with an
\* empty output.
LayersFit(h, w) ==
    LET layers == createConvModel(h, w)
    IN \A k \in 1..Len(layers) :
          \A i \in DOMAIN OutputShape(layers, k) : OutputShape(layers, k)[i] >= 1

\* ------------------------------------------------- data and the model

\* One-hot label row of example i of a split: its class is i mod NumClasses.
LabelRow(i) == [c \in 0..(NumClasses - 1) |-> IF c = i % NumClasses THEN 1 ELSE 0]

\* data.getTestData(n): the first n examples of the test split, all of them
\* when n is omitted.
GetTestData(size, n) == [k \in 1..(IF n < size THEN n ELSE size) |-> k - 1]
GetAllTestData(size) == [k \in 1..size |-> k - 1]

\* model.predict on example i under parameters w: a row of NumClasses scores.
\* The parameters are abstract: parameters 0 classify every example
\* correctly; parameters w > 0 classify example i correctly exactly when i is
\* a multiple of w + 1, and as the class w further on otherwise.
Predict(w, i) ==
    LET class == IF i % (w + 1) = 0 THEN i % NumClasses
                 ELSE (i + w) % NumClasses
    IN [c \in 0..(NumClasses - 1) |-> IF c = class THEN 2 ELSE 1]

\* tensor.argMax(1) on one row: the first index holding the largest value.
ArgMax(row) ==
    CHOOSE c \in DOMAIN row :
        /\ \A d \in DOMAIN row : row[d] <= row[c]
        /\ \A d \in DOMAIN row : d < c => row[d] < row[c]

\* The accuracy metric over examples lo..hi-1, the share of examples whose
\* predicted class is the labelled one, as <<correct, total>>.
Accuracy(w, lo, hi) ==
    <<Cardinality({i \in lo..(hi - 1) : ArgMax(Predict(w, i)) = ArgMax(LabelRow(i))}),
      hi - lo>>

\* Tensors still live after tf.tidy(fn) when fn allocated n and returns none.
Tidy(n) == 0

\* showPredictions: the arrays handed to ui.showTestResults.
showPredictionsUntrained(w, size) ==
    LET examples == GetTestData(size, testExamples)
    IN [predictions |-> [k \in DOMAIN examples |-> ArgMax(Predict(0, examples[k]))],
        labels |-> [k \in DOMAIN examples |-> ArgMax(LabelRow(examples[k]))]]
showPredictions(w, size) ==
    LET examples == GetTestData(size, testExamples)
    IN [predictions |-> [k \in DOMAIN examples |-> ArgMax(Predict(w, examples[k]))],
        labels |-> [k \in DOMAIN examples |-> ArgMax(LabelRow(examples[k]))]]

\* ------------------------------------------------------------- callbacks

\* trainBatchCount++
NextBatchCountOfEpoch(count, b) == b + 1
NextBatchCount(count, b) == count + 1

\* onIteration && batch % 10 === 0
ShouldIterateOnCount(count, b) == count % IterationStride = 0
ShouldIterate(count, b) == b % IterationStride = 0

\* await tf.nextFrame(): one more yield to the host.
SkipNextFrame(y) == y
NextFrame(y) == y + 1

\* valAcc = logs.val_acc
KeepFirstValAcc(old, logged) == IF old = undefined THEN logged ELSE old
NewValAcc(old, logged) == logged

\* ------------------------------------------------------------------ Init

\* <<train split size, test split size>> of the loaded dataset.
DatasetInputs ==
    ((1..MaxSmallN) \X {1})
        \cup ({MaxSmallN} \X (1..MaxSmallTest))
        \cup {<<LargeN, LargeTest>>}

\* The page is loaded and the handler registered; nothing has run.
PageLoaded ==
    /\ trainEpochs \in 1..MaxEpochs
    /\ weights = 0
    /\ updates = 0
    /\ pc2 = "idle"
    /\ run2 = [model |-> undefined, totalNumBatches |-> 0,
               trainBatchCount |-> 0, trainSlice |-> <<>>, valSlice |-> <<>>,
               epoch |-> 0, batch |-> 0, weights |-> 0,
               epochLogs |-> undefined, valAcc |-> undefined]
    /\ status = ""
    /\ data = undefined
    /\ loaded = {}
    /\ dataReads = {}
    /\ model = undefined
    /\ stages = <<>>
    /\ saves = 0
    /\ error = undefined
    /\ suspended = FALSE
    /\ totalNumBatches = 0
    /\ trainBatchCount = 0
    /\ trainSlice = <<>>
    /\ valSlice = <<>>
    /\ epoch = 0
    /\ batch = 0
    /\ batchRange = <<>>
    /\ used = 0
    /\ epochLogs = undefined
    /\ valAcc = undefined
    /\ progress = <<>>
    /\ batchEnds = 0
    /\ epochEnds = 0
    /\ yields = 0
    /\ onIterationCalls = <<>>
    /\ previews = <<>>
    /\ valAccPlot = <<>>
    /\ shown = <<>>
    /\ testResult = undefined
    /\ finalStatus = <<>>
    /\ trainReturn = <<>>
    /\ liveTensors = 0

\* The dataset of ./data: MaxImage x MaxImage images in NumClasses classes.
Init ==
    /\ \E d \in DatasetInputs :
        /\ numExamples = d[1]
        /\ testSize = d[2]
    /\ imageH = MaxImage
    /\ imageW = MaxImage
    /\ labelWidth = NumClasses
    /\ pc = "idle"
    /\ PageLoaded

inputs == <<numExamples, testSize, trainEpochs, imageH, imageW, labelWidth>>
second == <<pc2, run2>>
hookVars == <<onIterationCalls, shown, previews>>
endVars == <<testResult, finalStatus, trainReturn>>
fitVars == <<trainSlice, valSlice, epoch, batch, batchRange, used, weights,
             updates, epochLogs>>
uiVars == <<totalNumBatches, trainBatchCount, valAcc, progress, batchEnds,
            epochEnds, yields, valAccPlot>>

\* ---------------------------------------------------- the button's handler

\* The host runs one handler at a time, from the event that resumes it to its
\* next await on the host: it dispatches a click or resolves a load, a frame
\* or a save of one activation only while the other is parked.

\* The first activation is parked on its load, on a frame or on its save, or
\* is over.
HostIdle ==
    pc \in {"loading", "batchYield", "epochYield", "saving", "saved", "failed"}

\* The second activation has not begun, is parked, or is over.
Host2Idle ==
    pc2 \in {"idle", "loading", "batchYield", "epochYield", "saving", "saved",
             "failed"}

\* The button is activated: the handler logs, and load() makes a new MnistData
\* the module's data and awaits its load().  The first activation makes
\* object 1.
Click ==
    /\ pc = "idle"
    /\ status' = "Loading MNIST data..."
    /\ data' = Some(1)
    /\ stages' = Append(stages, "load")
    /\ pc' = "loading"
    /\ UNCHANGED <<inputs, second, loaded, dataReads, model, saves, error,
                   suspended, fitVars, uiVars, hookVars, endVars,
                   liveTensors>>

\* The load() of object 1 resolves and the handler goes on.
LoadDone ==
    /\ pc = "loading"
    /\ Host2Idle
    /\ loaded' = loaded \cup {1}
    /\ status' = "Creating model..."
    /\ pc' = "createModel"
    /\ UNCHANGED <<inputs, second, data, dataReads, model, stages, saves, error,
                   suspended, fitVars, uiVars, hookVars, endVars,
                   liveTensors>>

\* The load() of object 1 rejects, and with it the handler.
LoadFails ==
    /\ pc = "loading"
    /\ Host2Idle
    /\ error' = Some("load")
    /\ pc' = "failed"
    /\ UNCHANGED <<inputs, second, status, data, loaded, dataReads, model,
                   stages, saves, suspended, fitVars, uiVars, hookVars,
                   endVars, liveTensors>>

\* const model = createModel(); model.summary(); the handler logs that
\* training starts.
CreateModel ==
    /\ pc = "createModel"
    /\ model' = Some(createConvModel(imageH, imageW))
    /\ stages' = Append(stages, "build")
    /\ status' = "Starting model training..."
    /\ pc' = "train"
    /\ UNCHANGED <<inputs, second, data, loaded, dataReads, saves, error,
                   suspended, fitVars, uiVars, hookVars, endVars,
                   liveTensors>>

\* ---------------------------------------------------------------- train

\* train, up to the model.fit call: log, compile, read the epochs and the
\* module's data, compute totalNumBatches.  A MnistData whose load() has not
\* resolved has no data yet: reading it throws, and train rejects.
TrainBegin ==
    /\ pc = "train"
    /\ stages' = Append(stages, "train")
    /\ status' = "Training model..."
    /\ dataReads' = dataReads \cup {<<1, "train", data[1], data[1] \in loaded>>}
    /\ IF data[1] \in loaded
       THEN /\ trainBatchCount' = 0
            /\ totalNumBatches' = TotalNumBatches(numExamples, trainEpochs)
            /\ pc' = "fit"
            /\ UNCHANGED error
       ELSE /\ error' = Some("data")
            /\ pc' = "failed"
            /\ UNCHANGED <<trainBatchCount, totalNumBatches>>
    /\ UNCHANGED <<inputs, second, data, loaded, model, saves, suspended,
                   fitVars, valAcc, progress, batchEnds, epochEnds, yields,
                   valAccPlot, hookVars, endVars, liveTensors>>

TrainSize == trainSlice[2] - trainSlice[1]

\* model.fit begins: the data is cut at splitAt, the examples from splitAt on
\* are held out for validation, and the epoch loop starts.  (fit shuffles the
\* indices of the training slice into a new index array in each epoch; the
\* order of the array is not part of this state.)  A training slice with no
\* example gives epochs with no batch and no validation.
FitBegin ==
    /\ pc = "fit"
    /\ trainSlice' = <<0, SplitAt(numExamples)>>
    /\ valSlice' = <<SplitAt(numExamples), numExamples>>
    /\ epoch' = 0
    /\ batch' = 0
    /\ batchRange' = <<>>
    /\ used' = 0
    /\ epochLogs' = undefined
    /\ pc' = IF NumBatches(SplitAt(numExamples)) > 0 THEN "batch" ELSE "onEpochEnd"
    /\ UNCHANGED <<inputs, second, status, data, loaded, dataReads, model,
                   stages, saves, error, suspended, weights, updates, uiVars,
                   hookVars, endVars, liveTensors>>

\* model.fit runs one batch: the optimizer updates the parameters in place
\* (to any parameters), and on the last batch of the epoch fit evaluates the
\* validation slice into the epoch's logs before it calls onBatchEnd.
TrainStep ==
    /\ pc = "batch"
    /\ ~suspended
    /\ batchRange' = BatchRange(batch, TrainSize)
    /\ used' = used + (batchRange'[2] - batchRange'[1])
    /\ updates' = updates + 1
    /\ \E w \in 0..MaxWeights :
        /\ weights' = w
        /\ epochLogs' = IF batch = NumBatches(TrainSize) - 1
                        THEN Some(Accuracy(w, valSlice[1], valSlice[2]))
                        ELSE epochLogs
    /\ pc' = "onBatchEnd"
    /\ UNCHANGED <<inputs, second, status, data, loaded, dataReads, model,
                   stages, saves, error, suspended, trainSlice, valSlice,
                   epoch, batch, uiVars, hookVars, endVars, liveTensors>>

\* onIteration(eventType, n): the handler's hook is showPredictions(model),
\* which has no await and so runs to its end within the call: it reads the
\* module's data, predicts with the parameters as they are, and shows.  Its
\* tf.tidy allocates the model output and the two argMax results.  A preview
\* that ran to its end is kept with the counts at its end: the batch updates
\* applied, the callbacks entered (the calling one with them), the yields.  showPredictions
\* is an async function and its promise is dropped: when reading a MnistData
\* that has not loaded throws, the preview ends there and train goes on.
OnIterationDeferred(eventType, n) ==
    /\ onIterationCalls' = Append(onIterationCalls, <<eventType, n, epoch>>)
    /\ dataReads' = dataReads \cup
          {<<1, "showPredictions", data[1], data[1] \in loaded>>}
    /\ IF data[1] \in loaded
       THEN /\ shown' = Some(showPredictions(weights, testSize))
            /\ previews' = Append(previews,
                  [updates |-> updates,
                   batchEnds |-> batchEnds + (IF eventType = "onBatchEnd" THEN 1 ELSE 0),
                   epochEnds |-> epochEnds + (IF eventType = "onEpochEnd" THEN 1 ELSE 0),
                   yields |-> yields + 1])
            /\ liveTensors' = liveTensors + Tidy(3)
       ELSE UNCHANGED <<shown, previews, liveTensors>>
OnIteration(eventType, n) ==
    /\ onIterationCalls' = Append(onIterationCalls, <<eventType, n, epoch>>)
    /\ dataReads' = dataReads \cup
          {<<1, "showPredictions", data[1], data[1] \in loaded>>}
    /\ IF data[1] \in loaded
       THEN /\ shown' = Some(showPredictions(weights, testSize))
            /\ previews' = Append(previews,
                  [updates |-> updates,
                   batchEnds |-> batchEnds + (IF eventType = "onBatchEnd" THEN 1 ELSE 0),
                   epochEnds |-> epochEnds + (IF eventType = "onEpochEnd" THEN 1 ELSE 0),
                   yields |-> yields])
            /\ liveTensors' = liveTensors + Tidy(3)
       ELSE UNCHANGED <<shown, previews, liveTensors>>

\* The onBatchEnd callback, up to its await.
OnBatchEnd ==
    /\ pc = "onBatchEnd"
    /\ trainBatchCount' = NextBatchCount(trainBatchCount, batch)
    /\ status' = "Training... (% complete). To stop training, refresh or close page."
    /\ progress' = <<trainBatchCount', totalNumBatches>>
    /\ batchEnds' = batchEnds + 1
    /\ IF ShouldIterate(trainBatchCount', batch)
       THEN OnIteration("onBatchEnd", batch)
       ELSE UNCHANGED <<hookVars, dataReads, liveTensors>>
    /\ yields' = NextFrame(yields)
    /\ suspended' = (yields' # yields)
    /\ pc' = "batchYield"
    /\ UNCHANGED <<inputs, second, data, loaded, model, stages, saves, error,
                   fitVars, totalNumBatches, valAcc, epochEnds, valAccPlot,
                   endVars>>

\* The frame arrives; fit goes on to the next batch or ends the epoch.
BatchNextFrameEndsEpoch ==
    /\ pc = "batchYield"
    /\ Host2Idle
    /\ suspended' = FALSE
    /\ batch' = batch + 1
    /\ pc' = "onEpochEnd"
    /\ UNCHANGED <<inputs, second, status, data, loaded, dataReads, model,
                   stages, saves, error, trainSlice, valSlice, epoch,
                   batchRange, used, weights, updates, epochLogs, uiVars,
                   hookVars, endVars, liveTensors>>
BatchNextFrame ==
    /\ pc = "batchYield"
    /\ Host2Idle
    /\ suspended' = FALSE
    /\ batch' = batch + 1
    /\ pc' = IF batch + 1 < NumBatches(TrainSize) THEN "batch" ELSE "onEpochEnd"
    /\ UNCHANGED <<inputs, second, status, data, loaded, dataReads, model,
                   stages, saves, error, trainSlice, valSlice, epoch,
                   batchRange, used, weights, updates, epochLogs, uiVars,
                   hookVars, endVars, liveTensors>>

\* The onEpochEnd callback, up to its await.
OnEpochEnd ==
    /\ pc = "onEpochEnd"
    /\ valAcc' = NewValAcc(valAcc, epochLogs)
    /\ valAccPlot' = Append(valAccPlot, <<trainBatchCount, epochLogs>>)
    /\ epochEnds' = epochEnds + 1
    /\ OnIteration("onEpochEnd", epoch)
    /\ yields' = NextFrame(yields)
    /\ suspended' = (yields' # yields)
    /\ pc' = "epochYield"
    /\ UNCHANGED <<inputs, second, status, data, loaded, model, stages, saves,
                   error, fitVars, totalNumBatches, trainBatchCount, progress,
                   batchEnds, endVars>>

\* The frame arrives; fit starts the next epoch or returns.
EpochNextFrameEarly ==
    /\ pc = "epochYield"
    /\ Host2Idle
    /\ suspended' = FALSE
    /\ epoch' = epoch + 1
    /\ batch' = 0
    /\ batchRange' = <<>>
    /\ used' = 0
    /\ epochLogs' = undefined
    /\ pc' = IF epoch + 1 < trainEpochs - 1
             THEN (IF NumBatches(TrainSize) > 0 THEN "batch" ELSE "onEpochEnd")
             ELSE "evaluate"
    /\ UNCHANGED <<inputs, second, status, data, loaded, dataReads, model,
                   stages, saves, error, trainSlice, valSlice, weights,
                   updates, uiVars, hookVars, endVars, liveTensors>>
EpochNextFrame ==
    /\ pc = "epochYield"
    /\ Host2Idle
    /\ suspended' = FALSE
    /\ epoch' = epoch + 1
    /\ batch' = 0
    /\ batchRange' = <<>>
    /\ used' = 0
    /\ epochLogs' = undefined
    /\ pc' = IF epoch + 1 < trainEpochs
             THEN (IF NumBatches(TrainSize) > 0 THEN "batch" ELSE "onEpochEnd")
             ELSE "evaluate"
    /\ UNCHANGED <<inputs, second, status, data, loaded, dataReads, model,
                   stages, saves, error, trainSlice, valSlice, weights,
                   updates, uiVars, hookVars, endVars, liveTensors>>

\* After fit: model.evaluate on the whole test split read when train began,
\* the final status line; train ends without a return statement.
Evaluate ==
    /\ pc = "evaluate"
    /\ stages' = Append(stages, "evaluate")
    /\ testResult' = Some(Accuracy(weights, 0, testSize))
    /\ liveTensors' = liveTensors + Len(<<"loss", "acc">>)
    /\ status' = "Final validation accuracy: %; Final test accuracy: %"
    /\ finalStatus' = <<valAcc, testResult'[1]>>
    /\ trainReturn' = Some(undefined)
    /\ pc' = "done"
    /\ UNCHANGED <<inputs, second, data, loaded, dataReads, model, saves, error,
                   suspended, fitVars, uiVars, hookVars>>

\* The numeric engine throws while fit splits the data or runs a batch:
\* nothing catches it, fit rejects, and train and the handler with it.  The
\* throw comes before the batch's update is applied to the parameters.
FitRetries ==
    /\ pc \in {"fit", "batch"}
    /\ error' = Some("fit")
    /\ pc' = pc
    /\ UNCHANGED <<inputs, second, status, data, loaded, dataReads, model,
                   stages, saves, suspended, fitVars, uiVars, hookVars,
                   endVars, liveTensors>>
FitFails ==
    /\ pc \in {"fit", "batch"}
    /\ error' = Some("fit")
    /\ pc' = "failed"
    /\ UNCHANGED <<inputs, second, status, data, loaded, dataReads, model,
                   stages, saves, suspended, fitVars, uiVars, hookVars,
                   endVars, liveTensors>>

\* ------------------------------------------------------------ model.save

\* train has resolved: the handler calls model.save('downloads://model') and
\* awaits it.
SaveAlways ==
    /\ pc \in {"done", "failed"}
    /\ saves = 0
    /\ stages' = Append(stages, "save")
    /\ saves' = saves + 1
    /\ pc' = "saving"
    /\ UNCHANGED <<inputs, second, status, data, loaded, dataReads, model,
                   error, suspended, fitVars, uiVars, hookVars, endVars,
                   liveTensors>>
Save ==
    /\ pc = "done"
    /\ stages' = Append(stages, "save")
    /\ saves' = saves + 1
    /\ pc' = "saving"
    /\ UNCHANGED <<inputs, second, status, data, loaded, dataReads, model,
                   error, suspended, fitVars, uiVars, hookVars, endVars,
                   liveTensors>>

\* The save resolves and the handler ends.
SaveDone ==
    /\ pc = "saving"
    /\ Host2Idle
    /\ pc' = "saved"
    /\ UNCHANGED <<inputs, second, status, data, loaded, dataReads, model,
                   stages, saves, error, suspended, fitVars, uiVars, hookVars,
                   endVars, liveTensors>>

\* The save rejects, and with it the handler.
SaveFails ==
    /\ pc = "saving"
    /\ Host2Idle
    /\ error' = Some("save")
    /\ pc' = "failed"
    /\ UNCHANGED <<inputs, second, status, data, loaded, dataReads, model,
                   stages, saves, suspended, fitVars, uiVars, hookVars,
                   endVars, liveTensors>>

Next ==
    \/ Click
    \/ LoadDone
    \/ LoadFails
    \/ CreateModel
    \/ TrainBegin
    \/ FitBegin
    \/ TrainStep
    \/ OnBatchEnd
    \/ BatchNextFrame
    \/ OnEpochEnd
    \/ EpochNextFrame
    \/ Evaluate
    \/ FitFails
    \/ Save
    \/ SaveDone
    \/ SaveFails

Spec == Init /\ [][Next]_vars

\* ------------------------------------------------------------- BuildSpec

\* createModel() over every dataset shape: every image size the layers can
\* be stacked over, and every class count.
BuildInit ==
    /\ numExamples = 1
    /\ testSize = 1
    /\ \E s \in (1..MaxImage) \X (1..MaxImage) :
        /\ LayersFit(s[1], s[2])
        /\ imageH = s[1]
        /\ imageW = s[2]
    /\ labelWidth \in 2..MaxClasses
    /\ pc = "createModel"
    /\ PageLoaded

BuildNext == CreateModel

BuildSpec == BuildInit /\ [][BuildNext]_vars

\* ------------------------------------------------------------- ClickSpec

\* ui.setTrainButtonCallback(fn) calls fn on every activation of the button.
\* A second activation runs the same handler with its own model and its own
\* train call; the two handlers share the module's data, the page (status
\* line, plots, shown results), the engine's tensors and the downloads.

\* What belongs to the first activation alone.
firstVars ==
    <<pc, model, stages, error, suspended, fitVars, totalNumBatches,
      trainBatchCount, valAcc, batchEnds, epochEnds, yields, onIterationCalls,
      previews, testResult, trainReturn>>

\* The button is activated again: the second handler logs, and its load()
\* makes object 2 the module's data and awaits its load().
Click2 ==
    /\ pc2 = "idle"
    /\ HostIdle
    /\ status' = "Loading MNIST data..."
    /\ data' = Some(2)
    /\ pc2' = "loading"
    /\ UNCHANGED <<inputs, firstVars, run2, loaded, dataReads, saves,
                   progress, valAccPlot, shown, finalStatus, liveTensors>>

\* The load() of object 2 resolves and the second handler goes on.
Load2Done ==
    /\ pc2 = "loading"
    /\ HostIdle
    /\ loaded' = loaded \cup {2}
    /\ status' = "Creating model..."
    /\ pc2' = "createModel"
    /\ UNCHANGED <<inputs, firstVars, run2, data, dataReads, saves, progress,
                   valAccPlot, shown, finalStatus, liveTensors>>

\* The load() of object 2 rejects, and with it the second handler.
Load2Fails ==
    /\ pc2 = "loading"
    /\ HostIdle
    /\ pc2' = "failed"
    /\ UNCHANGED <<inputs, firstVars, run2, status, data, loaded, dataReads,
                   saves, progress, valAccPlot, shown, finalStatus,
                   liveTensors>>

\* The second handler: const model = createModel(); model.summary(); log.
CreateModel2 ==
    /\ pc2 = "createModel"
    /\ run2' = [run2 EXCEPT !.model = Some(createConvModel(imageH, imageW))]
    /\ status' = "Starting model training..."
    /\ pc2' = "train"
    /\ UNCHANGED <<inputs, firstVars, data, loaded, dataReads, saves,
                   progress, valAccPlot, shown, finalStatus, liveTensors>>

\* The second train, up to its model.fit call.
Train2Begin ==
    /\ pc2 = "train"
    /\ status' = "Training model..."
    /\ dataReads' = dataReads \cup {<<2, "train", data[1], data[1] \in loaded>>}
    /\ IF data[1] \in loaded
       THEN /\ run2' = [run2 EXCEPT
                   !.trainBatchCount = 0,
                   !.totalNumBatches = TotalNumBatches(numExamples, trainEpochs)]
            /\ pc2' = "fit"
       ELSE /\ pc2' = "failed"
            /\ UNCHANGED run2
    /\ UNCHANGED <<inputs, firstVars, data, loaded, saves, progress,
                   valAccPlot, shown, finalStatus, liveTensors>>

TrainSize2 == run2.trainSlice[2] - run2.trainSlice[1]

\* The second model.fit begins.
Fit2Begin ==
    /\ pc2 = "fit"
    /\ run2' = [run2 EXCEPT
            !.trainSlice = <<0, SplitAt(numExamples)>>,
            !.valSlice = <<SplitAt(numExamples), numExamples>>,
            !.epoch = 0,
            !.batch = 0,
            !.epochLogs = undefined]
    /\ pc2' = IF NumBatches(SplitAt(numExamples)) > 0 THEN "batch" ELSE "onEpochEnd"
    /\ UNCHANGED <<inputs, firstVars, status, data, loaded, dataReads, saves,
                   progress, valAccPlot, shown, finalStatus, liveTensors>>

\* The second model.fit runs one batch on its own model.
Train2Step ==
    /\ pc2 = "batch"
    /\ \E w \in 0..MaxWeights :
        run2' = [run2 EXCEPT
            !.weights = w,
            !.epochLogs = IF run2.batch = NumBatches(TrainSize2) - 1
                          THEN Some(Accuracy(w, run2.valSlice[1], run2.valSlice[2]))
                          ELSE run2.epochLogs]
    /\ pc2' = "onBatchEnd"
    /\ UNCHANGED <<inputs, firstVars, status, data, loaded, dataReads, saves,
                   progress, valAccPlot, shown, finalStatus, liveTensors>>

\* The second train's onIteration: showPredictions on the second model.
OnIteration2 ==
    /\ dataReads' = dataReads \cup
          {<<2, "showPredictions", data[1], data[1] \in loaded>>}
    /\ IF data[1] \in loaded
       THEN /\ shown' = Some(showPredictions(run2.weights, testSize))
            /\ liveTensors' = liveTensors + Tidy(3)
       ELSE UNCHANGED <<shown, liveTensors>>

\* The second train's onBatchEnd callback, up to its await.
On2BatchEnd ==
    /\ pc2 = "onBatchEnd"
    /\ run2' = [run2 EXCEPT
            !.trainBatchCount = NextBatchCount(run2.trainBatchCount, run2.batch)]
    /\ status' = "Training... (% complete). To stop training, refresh or close page."
    /\ progress' = <<run2'.trainBatchCount, run2.totalNumBatches>>
    /\ IF ShouldIterate(run2'.trainBatchCount, run2.batch)
       THEN OnIteration2
       ELSE UNCHANGED <<dataReads, shown, liveTensors>>
    /\ pc2' = "batchYield"
    /\ UNCHANGED <<inputs, firstVars, data, loaded, saves, valAccPlot,
                   finalStatus>>

\* The second train's frame arrives after a batch.
Batch2NextFrame ==
    /\ pc2 = "batchYield"
    /\ HostIdle
    /\ run2' = [run2 EXCEPT !.batch = run2.batch + 1]
    /\ pc2' = IF run2.batch + 1 < NumBatches(TrainSize2) THEN "batch" ELSE "onEpochEnd"
    /\ UNCHANGED <<inputs, firstVars, status, data, loaded, dataReads, saves,
                   progress, valAccPlot, shown, finalStatus, liveTensors>>

\* The second train's onEpochEnd callback, up to its await.
On2EpochEnd ==
    /\ pc2 = "onEpochEnd"
    /\ run2' = [run2 EXCEPT !.valAcc = NewValAcc(run2.valAcc, run2.epochLogs)]
    /\ valAccPlot' = Append(valAccPlot, <<run2.trainBatchCount, run2.epochLogs>>)
    /\ OnIteration2
    /\ pc2' = "epochYield"
    /\ UNCHANGED <<inputs, firstVars, status, data, loaded, saves, progress,
                   finalStatus>>

\* The second train's frame arrives after an epoch.
Epoch2NextFrame ==
    /\ pc2 = "epochYield"
    /\ HostIdle
    /\ run2' = [run2 EXCEPT
            !.epoch = run2.epoch + 1,
            !.batch = 0,
            !.epochLogs = undefined]
    /\ pc2' = IF run2.epoch + 1 < trainEpochs
              THEN (IF NumBatches(TrainSize2) > 0 THEN "batch" ELSE "onEpochEnd")
              ELSE "evaluate"
    /\ UNCHANGED <<inputs, firstVars, status, data, loaded, dataReads, saves,
                   progress, valAccPlot, shown, finalStatus, liveTensors>>

\* The second train after its fit: model.evaluate, the final status line.
Evaluate2 ==
    /\ pc2 = "evaluate"
    /\ liveTensors' = liveTensors + Len(<<"loss", "acc">>)
    /\ status' = "Final validation accuracy: %; Final test accuracy: %"
    /\ finalStatus' = <<run2.valAcc, Accuracy(run2.weights, 0, testSize)>>
    /\ pc2' = "done"
    /\ UNCHANGED <<inputs, firstVars, run2, data, loaded, dataReads, saves,
                   progress, valAccPlot, shown>>

\* The engine throws in the second model.fit: the second handler rejects.
Fit2Fails ==
    /\ pc2 \in {"fit", "batch"}
    /\ pc2' = "failed"
    /\ UNCHANGED <<inputs, firstVars, run2, status, data, loaded, dataReads,
                   saves, progress, valAccPlot, shown, finalStatus,
                   liveTensors>>

\* The second train has resolved: the second handler calls model.save.
Save2 ==
    /\ pc2 = "done"
    /\ saves' = saves + 1
    /\ pc2' = "saving"
    /\ UNCHANGED <<inputs, firstVars, run2, status, data, loaded, dataReads,
                   progress, valAccPlot, shown, finalStatus, liveTensors>>

\* The second save resolves and the second handler ends.
Save2Done ==
    /\ pc2 = "saving"
    /\ HostIdle
    /\ pc2' = "saved"
    /\ UNCHANGED <<inputs, firstVars, run2, status, data, loaded, dataReads,
                   saves, progress, valAccPlot, shown, finalStatus,
                   liveTensors>>

\* The second save rejects, and with it the second handler.
Save2Fails ==
    /\ pc2 = "saving"
    /\ HostIdle
    /\ pc2' = "failed"
    /\ UNCHANGED <<inputs, firstVars, run2, status, data, loaded, dataReads,
                   saves, progress, valAccPlot, shown, finalStatus,
                   liveTensors>>

\* One dataset, the largest of the small ones.
ClickInit ==
    /\ numExamples = MaxSmallN
    /\ testSize = MaxSmallTest
    /\ imageH = MaxImage
    /\ imageW = MaxImage
    /\ labelWidth = NumClasses
    /\ pc = "idle"
    /\ PageLoaded

ClickNext ==
    \/ Next
    \/ Click2
    \/ Load2Done
    \/ Load2Fails
    \/ CreateModel2
    \/ Train2Begin
    \/ Fit2Begin
    \/ Train2Step
    \/ On2BatchEnd
    \/ Batch2NextFrame
    \/ On2EpochEnd
    \/ Epoch2NextFrame
    \/ Evaluate2
    \/ Fit2Fails
    \/ Save2
    \/ Save2Done
    \/ Save2Fails

ClickSpec == ClickInit /\ [][ClickNext]_vars

\* ---------------------------------------------------------------- claims

\* What the claims say about the share held out, in exact arithmetic.
\* x is the ceiling of num / den.
IsCeil(x, num, den) == x * den >= num /\ (x - 1) * den < num
\* x is the floor of num / den.
IsFloor(x, num, den) == x * den <= num /\ (x + 1) * den > num
\* x is num / den rounded to the nearest integer, halves up.
IsRound(x, num, den) == IsFloor(x, 2 * num + den, 2 * den)

\* C1: once train has computed it, totalNumBatches is
\* ceil(N * (1 - validationSplit) / batchSize) * epochs: a multiple k * epochs
\* where k is the least integer with k * batchSize >= N * (1 - validationSplit).
C1_TotalNumBatches ==
    pc = "fit" \/ trainSlice # <<>> =>
        LET k == totalNumBatches \div trainEpochs
        IN /\ totalNumBatches = k * trainEpochs
           /\ IsCeil(k, numExamples * (100 - validationSplitPct), 100 * batchSize)

\* C1 witness: train has computed the total for two epochs over a dataset
\* whose training share is not a whole number of batches.
C1_Witness ==
    /\ pc = "fit"
    /\ trainEpochs = 2
    /\ totalNumBatches = 4
    /\ (numExamples * (100 - validationSplitPct)) % (100 * batchSize) # 0

\* C2 as stated: in a run that has trained a batch, the validation slice is
\* the last round(N * validationSplit) examples, the training slice the
\* prefix before it, and the sizes sum to N.
C2_ValidationIsRounded ==
    batchEnds > 0 =>
        \E r \in 0..numExamples :
            /\ IsRound(r, numExamples * validationSplitPct, 100)
            /\ valSlice = <<numExamples - r, numExamples>>
            /\ trainSlice = <<0, numExamples - r>>
            /\ (trainSlice[2] - trainSlice[1]) + (valSlice[2] - valSlice[1]) = numExamples

\* C2 amended: after the split the training slice is the first
\* floor(N * (1 - validationSplit)) examples, the validation slice is the
\* rest, the last N - floor(N * (1 - validationSplit)) examples in the
\* original order, and the sizes sum to N.
C2_ValidationIsRest ==
    trainSlice # <<>> =>
        /\ trainSlice[1] = 0
        /\ IsFloor(trainSlice[2], numExamples * (100 - validationSplitPct), 100)
        /\ valSlice = <<trainSlice[2], numExamples>>
        /\ (trainSlice[2] - trainSlice[1]) + (valSlice[2] - valSlice[1]) = numExamples

\* C2 witness: a split where rounding N * validationSplit and taking the rest
\* differ: of 382 examples, 324 are trained on and 58 held out, where
\* round(57.3) is 57; the first batch has run.
C2_Witness ==
    /\ numExamples = 382
    /\ trainSlice = <<0, 324>>
    /\ valSlice = <<324, 382>>
    /\ pc = "onBatchEnd"

\* C3: from one BatchEnd event to the next the fraction
\* trainBatchCount / totalNumBatches does not decrease, and a BatchEnd event
\* that reports 1 is the last batch of the last epoch.
C3_FractionMonotone ==
    [][batchEnds' # batchEnds =>
          /\ progress'[2] > 0
          /\ progress # <<>> => progress'[1] * progress[2] >= progress[1] * progress'[2]
          /\ progress'[1] = progress'[2] =>
                /\ epoch = trainEpochs - 1
                /\ batch = NumBatches(trainSlice[2] - trainSlice[1]) - 1]_vars

\* C3 witness: in a run of two epochs with two batches each, the last BatchEnd
\* event has reported the fraction 1.
C3_Witness ==
    /\ progress = <<4, 4>>
    /\ trainEpochs = 2
    /\ batchEnds = 4
    /\ pc = "batchYield"

\* C4: when train completes, the BatchEnd events number
\* ceil(trainPrefixSize / batchSize) * epochs, and the last of them reported
\* the fraction 1.
C4_FinalFractionIsOne ==
    pc = "done" =>
        \E k \in 0..numExamples :
            /\ IsCeil(k, trainSlice[2] - trainSlice[1], batchSize)
            /\ batchEnds = k * trainEpochs
            /\ batchEnds > 0 => progress[1] = progress[2]

\* The onBatchEnd callback of batch b of epoch e has been entered.
BatchEndEntered(e, b) ==
    \/ e < epoch
    \/ e = epoch /\ b < batch
    \/ e = epoch /\ b = batch /\ pc = "batchYield"

\* The onEpochEnd callback of epoch e has been entered.
EpochEndEntered(e) ==
    \/ e < epoch
    \/ e = epoch /\ pc = "epochYield"

\* The onIteration calls due so far: <<eventType, batch or epoch, epoch>>.
ExpectedIterationCalls ==
    LET batches == NumBatches(trainSlice[2] - trainSlice[1])
    IN {<<"onBatchEnd", b, e>> : <<b, e>> \in
            {c \in (0..(batches - 1)) \X (0..(trainEpochs - 1)) :
                BatchEndEntered(c[2], c[1]) /\ c[1] % 10 = 0}}
       \cup {<<"onEpochEnd", e, e>> : e \in
            {c \in 0..(trainEpochs - 1) : EpochEndEntered(c)}}

\* C5: in each epoch onIteration("onBatchEnd") has been called once for each
\* batch ended whose index is 0, 10, 20, ... and for no other batch, and
\* onIteration("onEpochEnd") once for each epoch ended.
C5_IterationCalls ==
    trainSlice # <<>> =>
        /\ {onIterationCalls[k] : k \in DOMAIN onIterationCalls} = ExpectedIterationCalls
        /\ Len(onIterationCalls) = Cardinality(ExpectedIterationCalls)

\* C5 witness: a completed run of two epochs of 21 batches whose second epoch
\* called the hook for its batch 20.
C5_Witness ==
    /\ pc = "done"
    /\ trainEpochs = 2
    /\ batchEnds = 2 * 21
    /\ Len(onIterationCalls) = 2 * 4
    /\ \E k \in DOMAIN onIterationCalls : onIterationCalls[k] = <<"onBatchEnd", 20, 1>>

\* The val_acc carried by the last EpochEnd event.
LastEpochEndValAcc == valAccPlot[Len(valAccPlot)][2]

\* C6 as stated: when a run that trained a batch completes, train resolves
\* with the val_acc of the last EpochEnd event.
C6_ReturnsValAcc ==
    pc = "done" /\ batchEnds > 0 => trainReturn = Some(LastEpochEndValAcc)

\* C6 amended: train resolves with no value; the val_acc of the last EpochEnd
\* event is what its final status line reports as the final validation
\* accuracy.
C6_StatusShowsValAcc ==
    pc = "done" =>
        /\ trainReturn = Some(undefined)
        /\ finalStatus[1] = LastEpochEndValAcc

\* C6 witness: a completed run whose two epochs ended with different
\* validation accuracies.
C6_Witness ==
    /\ pc = "done"
    /\ Len(valAccPlot) = 2
    /\ valAccPlot[1][2] # valAccPlot[2][2]
    /\ valAccPlot[2][2] # undefined

\* The positions at which the shown predictions and labels agree.
ShownMatches ==
    Cardinality({k \in DOMAIN shown[1].predictions :
                    shown[1].predictions[k] = shown[1].labels[k]})

\* The shown arrays have equal length and hold class indices.
ShownArraysWellFormed ==
    /\ Len(shown[1].predictions) = Len(shown[1].labels)
    /\ \A k \in DOMAIN shown[1].predictions : shown[1].predictions[k] \in 0..(NumClasses - 1)
    /\ \A k \in DOMAIN shown[1].labels : shown[1].labels[k] \in 0..(NumClasses - 1)

\* C7 as stated: at the end of a run the shown arrays have equal length and
\* hold class indices, and the test accuracy is the fraction of their
\* positions that agree.
C7_AccuracyOfShownArrays ==
    pc = "done" =>
        /\ ShownArraysWellFormed
        /\ testResult[1][1] * Len(shown[1].predictions) = ShownMatches * testResult[1][2]

\* C7 amended: whenever arrays are shown they have equal length, that of the
\* first testExamples examples of the test split, and hold class indices; the
\* test accuracy is taken over the whole test split, and is the fraction of
\* agreeing positions of the last shown arrays when the test split has no
\* more than testExamples examples.
C7_AccuracyOfTestSplit ==
    /\ shown # <<>> =>
        /\ ShownArraysWellFormed
        /\ Len(shown[1].predictions) = IF testSize < testExamples THEN testSize ELSE testExamples
    /\ pc = "done" =>
        /\ testResult[1][2] = testSize
        /\ testSize <= testExamples => testResult[1][1] = ShownMatches

\* C7 witness: a completed run over a test split of several examples, no
\* more than the preview takes, with parameters that misclassify some of
\* them: the last shown arrays disagree at as many positions as the test
\* accuracy counts wrong.
C7_Witness ==
    /\ pc = "done"
    /\ testSize > 1
    /\ testSize <= testExamples
    /\ Len(shown[1].predictions) = testSize
    /\ ShownMatches < testSize
    /\ ShownMatches > 0
    /\ testResult[1] = <<ShownMatches, testSize>>

\* C9: a callback that emits a checkpoint ends in exactly one yield, parked
\* after the checkpoint's progress was emitted; nothing else yields; and a
\* batch runs only when train is not parked and every checkpoint so far has
\* had its yield.
C9_YieldsAtCheckpoints ==
    [][/\ batchEnds' # batchEnds =>
            /\ yields' = yields + 1
            /\ suspended'
            /\ progress' = <<trainBatchCount', totalNumBatches>>
       /\ epochEnds' # epochEnds =>
            /\ yields' = yields + 1
            /\ suspended'
            /\ Len(valAccPlot') = epochEnds'
       /\ yields' # yields => batchEnds' # batchEnds \/ epochEnds' # epochEnds
       /\ suspended => pc \in {"batchYield", "epochYield"}
       /\ pc = "batch" /\ pc' = "onBatchEnd" =>
            /\ ~suspended
            /\ yields = batchEnds + epochEnds]_vars

\* C9 witness: the first batch of the second epoch is about to run, after
\* the yields of two batches and of one epoch end.
C9_Witness ==
    /\ pc = "batch"
    /\ epoch = 1
    /\ batchEnds = 2
    /\ epochEnds = 1
    /\ yields = 3
    /\ ~suspended

\* C10: when a run that trained a batch completes, no tensor allocated by an
\* evaluation (a preview or the final test evaluation) is live.
C10_NoEvaluationTensorLive ==
    pc = "done" /\ batchEnds > 0 => liveTensors = 0

\* C11 as stated: the last layer of the model that createModel made is as
\* wide as the dataset has classes, for every class count from 2 on and
\* every image size.
C11_OutputWidthIsClassCount ==
    model # undefined => OutputWidth(model[1]) = labelWidth

\* C11 amended: the last layer of the model that createModel made is 10 wide
\* for every image size the layers can be stacked over and every class
\* count; that is the dataset's class count exactly when it has 10 classes.
C11_OutputWidthIsTen ==
    model # undefined =>
        /\ Len(model[1]) = 8
        /\ model[1][Len(model[1])].layer = "dense"
        /\ OutputWidth(model[1]) = 10
        /\ OutputWidth(model[1]) = labelWidth <=> labelWidth = 10

\* C11 witness: a model made for images that are not square, whose second
\* pooling leaves a single row, and for a dataset of two classes.
C11_Witness ==
    /\ model # undefined
    /\ imageH = 16
    /\ imageW = 28
    /\ labelWidth = 2
    /\ OutputShape(model[1], 4) = <<1, 4, 64>>
    /\ OutputWidth(model[1]) = 10

\* The train call of the first activation has begun and has neither resolved
\* nor rejected.
FirstTrainRunning ==
    /\ \E k \in DOMAIN stages : stages[k] = "train"
    /\ trainReturn = <<>>
    /\ pc # "failed"

\* The train call of the second activation has begun and has neither
\* resolved nor rejected.
SecondTrainRunning ==
    pc2 \in {"fit", "batch", "onBatchEnd", "batchYield", "onEpochEnd",
             "epochYield", "evaluate"}

\* C12: whatever the activations of the button, no train call begins or runs
\* while the train call of another activation is between its start and its
\* completion.
C12_NoConcurrentRuns ==
    ~(FirstTrainRunning /\ SecondTrainRunning)

\* C13: in every epoch the batches are cut from the index array of the
\* training slice one after the other: a batch begins where the batches
\* before it ended, lies within the array (so no example of the validation
\* slice, which begins where the training slice ends, is in a batch), and has
\* batchSize entries unless it is the last, which has the rest; when the
\* epoch ends every entry has been in exactly one batch.
C13_BatchesPartitionTrainSlice ==
    /\ batchRange # <<>> =>
        LET size == batchRange[2] - batchRange[1]
        IN /\ 0 <= batchRange[1]
           /\ size >= 1
           /\ size <= batchSize
           /\ batchRange[1] = used - size
           /\ batchRange[2] <= trainSlice[2] - trainSlice[1]
           /\ trainSlice[2] <= valSlice[1]
           /\ size < batchSize => batchRange[2] = trainSlice[2] - trainSlice[1]
    /\ pc \in {"onEpochEnd", "epochYield"} =>
        used = trainSlice[2] - trainSlice[1]

\* C13 witness: the second epoch over a training slice of 340 examples has
\* ended after a batch of 320 and a last batch of 20.
C13_Witness ==
    /\ pc = "onEpochEnd"
    /\ epoch = 1
    /\ trainSlice = <<0, 340>>
    /\ batchRange = <<320, 340>>
    /\ used = 340

\* The step in which fit makes the validation pass of an epoch.
ValidationPass == epochLogs = undefined /\ epochLogs' # undefined

\* C14 as stated: in every epoch all BatchEnd events come before the
\* validation pass and before the one EpochEnd event, and the EpochEnd event
\* of an epoch, with its onIteration("onEpochEnd") call, comes before every
\* BatchEnd event of the next epoch.
C14_BatchEndsBeforeValidation ==
    [][/\ ValidationPass =>
            /\ batchEnds = updates'
            /\ epochEnds = epoch
       /\ epochEnds' # epochEnds =>
            /\ batchEnds = updates
            /\ epochEnds = epoch
            /\ onIterationCalls'[Len(onIterationCalls')] = <<"onEpochEnd", epoch, epoch>>
       /\ batchEnds' # batchEnds => epochEnds = epoch]_vars

\* C14 amended: the validation pass of an epoch is made in the step of the
\* epoch's last batch, after the BatchEnd events of all its batches but the
\* last and before the BatchEnd event of the last; the one EpochEnd event of
\* the epoch, with its onIteration("onEpochEnd") call, comes after all the
\* epoch's BatchEnd events and after its validation pass, and before every
\* BatchEnd event of the next epoch.
C14_ValidationBeforeLastBatchEnd ==
    [][/\ ValidationPass =>
            /\ used' = trainSlice[2] - trainSlice[1]
            /\ batchEnds = updates
            /\ updates' = updates + 1
            /\ epochEnds = epoch
       /\ epochEnds' # epochEnds =>
            /\ used = trainSlice[2] - trainSlice[1]
            /\ batchEnds = updates
            /\ used > 0 => epochLogs # undefined
            /\ epochEnds = epoch
            /\ epochEnds' = epoch + 1
            /\ onIterationCalls'[Len(onIterationCalls')] = <<"onEpochEnd", epoch, epoch>>
       /\ batchEnds' # batchEnds =>
            /\ epochEnds = epoch
            /\ batchEnds' = updates]_vars

\* C14 witness: in the second epoch of two batches the validation pass has
\* been made and the BatchEnd event of the last batch is still to come.
C14_Witness ==
    /\ pc = "onBatchEnd"
    /\ epoch = 1
    /\ epochEnds = 1
    /\ batch = 1
    /\ batchEnds = 3
    /\ updates = 4
    /\ epochLogs # undefined

\* C15 as stated: the test accuracy is computed only once the last epoch has
\* ended, and in a run that trains a batch no predicted and true label arrays
\* are shown before the training has finished.
C15_NoArraysBeforeTrainingEnds ==
    /\ testResult # undefined => epochEnds = trainEpochs
    /\ batchEnds > 0 /\ shown # <<>> =>
        /\ epochEnds = trainEpochs
        /\ pc \in {"evaluate", "done", "saving", "saved", "failed"}

\* C15 amended: the test accuracy is computed exactly once in a run, after
\* the last epoch has ended, and every train call that resolves has computed
\* it; the predicted and true label arrays are shown by the prediction
\* previews, each within a BatchEnd or EpochEnd callback while the training
\* runs, the first with the first BatchEnd event, and none once the test
\* accuracy is computed.
C15_AccuracyOnceArraysInTraining ==
    [][/\ testResult' # testResult =>
            /\ testResult = undefined
            /\ pc = "evaluate"
            /\ epochEnds = trainEpochs
            /\ epoch = trainEpochs
       /\ trainReturn' # <<>> => testResult' # undefined
       /\ previews' # previews =>
            /\ shown' # <<>>
            /\ batchEnds' # batchEnds \/ epochEnds' # epochEnds
            /\ testResult' = undefined
            /\ trainReturn' = <<>>
       /\ shown' # shown => previews' # previews
       /\ batchEnds' > 0 => shown' # <<>>]_vars

\* C15 witness: the first batch of a run of two epochs has ended and its
\* preview has shown arrays, before any epoch has ended and before the test
\* accuracy is computed.
C15_Witness ==
    /\ pc = "batchYield"
    /\ trainEpochs = 2
    /\ batchEnds = 1
    /\ epochEnds = 0
    /\ Len(previews) = 1
    /\ shown # <<>>
    /\ Len(shown[1].predictions) = testExamples
    /\ testResult = undefined

\* What a run has done and shown so far.
RunEffects ==
    <<weights, updates, batch, epoch, batchEnds, epochEnds, trainBatchCount,
      progress, status, onIterationCalls, previews, shown, valAccPlot, yields,
      testResult, trainReturn, saves>>

\* C16: when the numeric engine fails in fit the run is aborted: the failing
\* step changes neither the parameters, which stay those of the last batch
\* that completed, nor anything the run has reported, and after it no batch
\* runs, nothing is reported, train does not resolve and nothing is saved.
C16_EngineFailureAborts ==
    [][/\ error = undefined /\ error' = Some("fit") =>
            /\ pc \in {"fit", "batch"}
            /\ pc' = "failed"
            /\ RunEffects' = RunEffects
       /\ error = Some("fit") =>
            /\ pc = "failed"
            /\ pc' = "failed"
            /\ RunEffects' = RunEffects
       /\ error' = Some("fit") =>
            /\ pc' = "failed"
            /\ trainReturn' = <<>>
            /\ saves' = 0]_vars

\* C16 witness: the engine failed in the second batch of a run; one batch
\* had completed and had changed the parameters.
C16_Witness ==
    /\ pc = "failed"
    /\ error = Some("fit")
    /\ batch = 1
    /\ updates = 1
    /\ batchEnds = 1
    /\ weights = 1
    /\ progress[1] = 1

\* The steps of one run, in the order the claim gives them.
RunOrder == <<"load", "build", "train", "evaluate", "save">>

\* C17: the steps a handler has begun are the first few of load, build,
\* train, evaluate, save, in this order; model.save is called at most once,
\* only once train has resolved with the test accuracy computed, and not at
\* all when the load or the training ended with an error.
C17_HandlerOrder ==
    /\ \E k \in 0..Len(RunOrder) : stages = SubSeq(RunOrder, 1, k)
    /\ saves <= 1
    /\ saves = Cardinality({k \in DOMAIN stages : stages[k] = "save"})
    /\ saves = 1 =>
        /\ trainReturn # <<>>
        /\ testResult # undefined
        /\ epochEnds = trainEpochs
    /\ error # undefined /\ error # Some("save") => saves = 0
    /\ pc = "saved" => saves = 1

\* C17 witness: a run of two epochs has gone through all five steps and its
\* save has resolved.
C17_Witness ==
    /\ pc = "saved"
    /\ stages = RunOrder
    /\ saves = 1
    /\ epochEnds = 2
    /\ batchEnds > 0
    /\ error = undefined

\* C18: whatever the activations of the button, every read of the module's
\* data by a run's train or showPredictions finds an object whose load has
\* resolved, and finds the object that the run itself made and loaded.
C18_ReadsOwnLoadedData ==
    \A r \in dataReads :
        /\ r[4]
        /\ r[3] = r[1]

\* C19: every onIteration call of train runs its preview to the end, predict
\* and show, within the callback that made it: before that callback's yield
\* (all earlier callbacks have had their yield, this one has not) and with
\* the parameters of the batches completed so far; the call changes no
\* parameters, and no batch update runs while train is parked or in a step
\* in which a preview runs.
C19_PreviewEndsBeforeYield ==
    [][/\ \A k \in DOMAIN previews' :
            /\ previews'[k].yields = previews'[k].batchEnds + previews'[k].epochEnds - 1
            /\ previews'[k].updates = previews'[k].batchEnds
       /\ Len(previews') = Len(onIterationCalls')
       /\ onIterationCalls' # onIterationCalls =>
            /\ Len(previews') = Len(previews) + 1
            /\ shown' # <<>>
            /\ pc \in {"onBatchEnd", "onEpochEnd"}
            /\ weights' = weights
            /\ updates' = updates
            /\ yields' = yields + 1
            /\ suspended'
       /\ updates' # updates =>
            /\ ~suspended
            /\ previews' = previews]_vars

\* C19 witness: the preview of batch 10 of the first epoch has ended, with
\* the parameters after eleven batches and before the eleventh yield, and
\* the next batch has not begun.
C19_Witness ==
    /\ pc = "batchYield"
    /\ batch = 10
    /\ epoch = 0
    /\ updates = 11
    /\ yields = 11
    /\ Len(previews) = 2
    /\ previews[2] = [updates |-> 11, batchEnds |-> 11, epochEnds |-> 0, yields |-> 10]

====
